---- MODULE Spec2Model ----
(***************************************************************************)
(* Model of ranking_consolidator.py: the five source parsers, the          *)
(* position-rank calculator, the consensus aggregator and the driver       *)
(* main().                                                                 *)
(*                                                                         *)
(* Text is modelled at token level.  A line is a sequence of tokens; a     *)
(* token is [k, v, n]: k its lexical class, v its text, n the value of an  *)
(* "int" token or the number of letters of an "up" token.  Classes:        *)
(*   "int"  a run of digits            (\d+)                               *)
(*   "up"   a run of upper-case letters ([A-Z]+)                           *)
(*   "w"    any other run of word characters, e.g. Edm, McDavid, Jr.       *)
(*   "sp"   an extra run of blanks inside a text                           *)
(*   "." "," "(" ")" "-" "%" "tab"  the punctuation the formats use        *)
(* Tokens are separated by the whitespace the format prescribes.           *)
(* A name is the sequence of its words; a rank averaged by the aggregator  *)
(* is kept in tenths (round(x, 1) * 10), so 6.0 is 60 and 999 is 9990.     *)
(***************************************************************************)
EXTENDS Integers, Sequences, FiniteSets, TLC

VARIABLES pc, run, datasets, all_players, consensus_players, prev

vars == <<pc, run, datasets, all_players, consensus_players, prev>>

----------------------------------------------------------------------------
(* Bounds *)

\* lines read over the whole directory in the pipeline specification
MaxLines == 3
\* lines of the single file of the parser specification
MaxFileLines == 6
\* lines read over the whole directory in the single-group specification
MaxGroupLines == 4

----------------------------------------------------------------------------
(* Tokens *)

Num(i) == [k |-> "int", v |-> ToString(i), n |-> i]
Up(s, len) == [k |-> "up", v |-> s, n |-> len]
W(s) == [k |-> "w", v |-> s, n |-> 0]
P(s) == [k |-> s, v |-> s, n |-> 0]
Dot == P(".")
Comma == P(",")
LParen == P("(")
RParen == P(")")
Dash == P("-")
Pct == P("%")
Tab == P("tab")
Sp == [k |-> "sp", v |-> " ", n |-> 0]

\* \w+ : digits, upper-case and mixed words
IsWord(t) == t.k \in {"int", "up", "w"}

----------------------------------------------------------------------------
(* Helpers of the Python runtime *)

RECURSIVE SeqSum(_)
SeqSum(s) == IF s = <<>> THEN 0 ELSE Head(s) + SeqSum(Tail(s))

RECURSIVE Flatten(_)
Flatten(ss) == IF ss = <<>> THEN <<>> ELSE Head(ss) \o Flatten(Tail(ss))

Range(s) == {s[i] : i \in 1..Len(s)}

\* list.count
Count(s, x) == Cardinality({i \in 1..Len(s) : s[i] = x})

\* str.strip() on a line of blanks-separated tokens: drop the blanks and
\* tabs at both ends
IsBlank(t) == t.k \in {"sp", "tab"}

RECURSIVE LStrip(_)
LStrip(l) == IF l # <<>> /\ IsBlank(Head(l)) THEN LStrip(Tail(l)) ELSE l

RECURSIVE RStrip(_)
RStrip(l) ==
    IF l # <<>> /\ IsBlank(l[Len(l)]) THEN RStrip(SubSeq(l, 1, Len(l) - 1)) ELSE l

strip(l) == RStrip(LStrip(l))

\* str.split(sep): the fields between the separator tokens
RECURSIVE split(_, _)
split(l, sep) ==
    IF \A i \in 1..Len(l) : l[i].k # sep
    THEN <<l>>
    ELSE LET c == CHOOSE i \in 1..Len(l) :
                      l[i].k = sep /\ \A j \in 1..(i - 1) : l[j].k # sep
         IN <<SubSeq(l, 1, c - 1)>> \o split(SubSeq(l, c + 1, Len(l)), sep)

\* the text of a field that holds at most one token
FieldText(fld) == IF fld = <<>> THEN "" ELSE fld[1].v

\* index of the first "," at or after position i, 0 when there is none
FirstComma(l, i) ==
    IF \E c \in i..Len(l) : l[c].k = ","
    THEN CHOOSE c \in i..Len(l) : l[c].k = "," /\ \A j \in i..(c - 1) : l[j].k # ","
    ELSE 0

\* round(num / den, 1) in tenths: Python rounds the decimal value of the
\* quotient to the nearest tenth, an exact half to the even tenth
RoundTenths(num, den) ==
    LET q == (10 * num) \div den
        r == (10 * num) % den
    IN IF 2 * r < den THEN q
       ELSE IF 2 * r > den THEN q + 1
       ELSE IF q % 2 = 0 THEN q ELSE q + 1

----------------------------------------------------------------------------
(* RankingParser *)

team_abbreviations(t) ==
    CASE t = "TBL" -> "TB"
      [] t = "SJS" -> "SJ"
      [] t = "LAS" -> "VGK"
      [] t = "Wpg" -> "WPG"
      [] t = "Tor" -> "TOR"
      [] t = "Edm" -> "EDM"
      [] t = "Col" -> "COL"
      [] t = "Bos" -> "BOS"
      [] t = "Ott" -> "OTT"
      [] t = "Nsh" -> "NSH"
      [] t = "Dal" -> "DAL"
      [] OTHER -> t

\* ' '.join(name.strip().split()) then Jr. -> Jr, Sr. -> Sr
RECURSIVE normalize_name(_)
normalize_name(toks) ==
    IF toks = <<>> THEN <<>>
    ELSE LET t == Head(toks)
             word == CASE t.v = "Jr." -> "Jr"
                       [] t.v = "Sr." -> "Sr"
                       [] OTHER -> t.v
         IN IF IsBlank(t) THEN normalize_name(Tail(toks))
            ELSE <<word>> \o normalize_name(Tail(toks))

Player(name, team, position, overall_rank, position_rank, multi_position) ==
    [name |-> name, team |-> team, position |-> position,
     overall_rank |-> overall_rank, position_rank |-> position_rank,
     multi_position |-> multi_position]

\* position from the file name, one csv row -> one record
FilenamePosition(fname) ==
    IF \E i \in 1..Len(fname) : fname[i] = "_C_" THEN "C"
    ELSE IF \E i \in 1..Len(fname) : fname[i] = "_LW_" THEN "LW"
    ELSE IF \E i \in 1..Len(fname) : fname[i] = "_RW_" THEN "RW"
    ELSE IF \E i \in 1..Len(fname) : fname[i] = "_D_" THEN "D"
    ELSE IF \E i \in 1..Len(fname) : fname[i] = "_G_" THEN "G"
    ELSE "F"

\* csv.DictReader rows under the header RK,PLAYER NAME,TEAM; the rows read
\* have a numeric RK (int() raises on any other and main() does not catch)
parse_fantasyprops_csv(fname, lines) ==
    LET position == FilenamePosition(fname)
        Row(l) == LET row == split(l, ",")
                  IN Player(normalize_name(row[2]),
                            team_abbreviations(FieldText(row[3])),
                            position, row[1][1].n, row[1][1].n,
                            position = "F")
    IN [i \in 1..Len(lines) |-> Row(lines[i])]

\* (\d+)\.\s+([^,]+),\s+(\w+)\s+\(([A-Z]+)(\d+)\)
EspnLine(raw) ==
    LET line == strip(raw)
        c == FirstComma(line, 3)
    IN IF /\ Len(line) >= 2
          /\ line[1].k = "int"
          /\ line[2].k = "."
          /\ c >= 4
          /\ Len(line) >= c + 5
          /\ IsWord(line[c + 1])
          /\ line[c + 2].k = "("
          /\ line[c + 3].k = "up"
          /\ line[c + 4].k = "int"
          /\ line[c + 5].k = ")"
       THEN <<Player(normalize_name(SubSeq(line, 3, c - 1)),
                     team_abbreviations(line[c + 1].v),
                     line[c + 3].v, line[1].n, line[c + 4].n,
                     line[c + 3].v = "F")>>
       ELSE <<>>

parse_espn_text(lines) == Flatten([i \in 1..Len(lines) |-> EspnLine(lines[i])])

\* (\d+)\.\s+([^,]+),\s+([A-Z]+),\s+(\w+)
NhlLine(raw) ==
    LET line == strip(raw)
        c == FirstComma(line, 3)
    IN IF /\ Len(line) >= 2
          /\ line[1].k = "int"
          /\ line[2].k = "."
          /\ c >= 4
          /\ Len(line) >= c + 3
          /\ line[c + 1].k = "up"
          /\ line[c + 2].k = ","
          /\ IsWord(line[c + 3])
       THEN <<Player(normalize_name(SubSeq(line, 3, c - 1)),
                     team_abbreviations(line[c + 3].v),
                     line[c + 1].v, line[1].n, line[1].n,
                     line[c + 1].v = "F")>>
       ELSE <<>>

parse_nhl_text(lines) == Flatten([i \in 1..Len(lines) |-> NhlLine(lines[i])])

\* line.split('\t'), len(parts) >= 4 and parts[0].isdigit()
HhLine(raw) ==
    LET line == strip(raw)
        parts == split(line, "tab")
    IN IF /\ line # <<>>
          /\ Len(parts) >= 4
          /\ Len(parts[1]) = 1
          /\ parts[1][1].k = "int"
       THEN <<Player(normalize_name(parts[2]),
                     team_abbreviations(FieldText(parts[4])),
                     FieldText(parts[3]), parts[1][1].n, parts[1][1].n,
                     FieldText(parts[3]) = "F")>>
       ELSE <<>>

parse_hh_text(lines) == Flatten([i \in 1..Len(lines) |-> HhLine(lines[i])])

\* ([A-Z]{2,3})\s*-\s*([A-Z]+)
TeamPosMatch(raw) ==
    LET next_line == strip(raw)
    IN /\ Len(next_line) >= 3
       /\ next_line[1].k = "up"
       /\ next_line[1].n \in {2, 3}
       /\ next_line[2].k = "-"
       /\ next_line[3].k = "up"

\* a non-blank line that is not Photo.., Player.., \d+, \d+% or \d+\.\d+
YahooCandidate(raw) ==
    LET line == strip(raw)
    IN /\ line # <<>>
       /\ line[1].v \notin {"Photo", "Player"}
       /\ ~(Len(line) = 1 /\ line[1].k = "int")
       /\ ~(Len(line) = 2 /\ line[1].k = "int" /\ line[2].k = "%")
       /\ ~(Len(line) = 3 /\ line[1].k = "int" /\ line[2].k = "."
              /\ line[3].k = "int")

\* the while loop of parse_yahoo_text from line i (1-based) on
RECURSIVE YahooLoop(_, _, _, _)
YahooLoop(lines, i, overall_rank, players) ==
    IF i > Len(lines) THEN players
    ELSE LET last == IF i + 4 < Len(lines) THEN i + 4 ELSE Len(lines)
             hits == {j \in (i + 1)..last : TeamPosMatch(lines[j])}
         IN IF YahooCandidate(lines[i]) /\ hits # {}
            THEN LET j == CHOOSE h \in hits : \A g \in hits : h <= g
                     tp == strip(lines[j])
                     position == tp[3].v
                 IN YahooLoop(lines, i + 1, overall_rank + 1,
                        Append(players,
                            Player(normalize_name(strip(lines[i])),
                                   team_abbreviations(tp[1].v), position,
                                   overall_rank, overall_rank,
                                   position \in {"C", "LW", "RW"})))
            ELSE YahooLoop(lines, i + 1, overall_rank, players)

parse_yahoo_text(lines) == YahooLoop(lines, 1, 1, <<>>)

\* dispatch on the file name: a file is [fname, lines], fname the parts of
\* its lower-cased name, the extension last
parse_file(f) ==
    LET has(s) == \E i \in 1..Len(f.fname) : f.fname[i] = s
    IN IF f.fname[Len(f.fname)] = ".csv"
       THEN parse_fantasyprops_csv(f.fname, f.lines)
       ELSE IF has("espn") THEN parse_espn_text(f.lines)
       ELSE IF has("yahoo") THEN parse_yahoo_text(f.lines)
       ELSE IF has("nhl") THEN parse_nhl_text(f.lines)
       ELSE IF has("hh") THEN parse_hh_text(f.lines)
       ELSE <<>>

----------------------------------------------------------------------------
(* list.sort(key=lambda x: x['overall_rank']): stable, ascending.  The     *)
(* list is given as indices into recs, in list order.                      *)

\* a sort that is not stable: idx goes before the elements of equal key
SortInsertUnstable(recs, sorted, idx) ==
    LET before == {i \in 1..Len(sorted) :
                      recs[sorted[i]].overall_rank < recs[idx].overall_rank}
        m == Cardinality(before)
    IN SubSeq(sorted, 1, m) \o <<idx>> \o SubSeq(sorted, m + 1, Len(sorted))

\* idx goes behind every element whose key is not greater than its own
SortInsert(recs, sorted, idx) ==
    LET before == {i \in 1..Len(sorted) :
                      recs[sorted[i]].overall_rank <= recs[idx].overall_rank}
        m == Cardinality(before)
    IN SubSeq(sorted, 1, m) \o <<idx>> \o SubSeq(sorted, m + 1, Len(sorted))

RECURSIVE SortFrom(_, _, _)
SortFrom(recs, sorted, rest) ==
    IF rest = <<>> THEN sorted
    ELSE SortFrom(recs, SortInsert(recs, sorted, Head(rest)), Tail(rest))

SortByOverallRank(recs, idxs) == SortFrom(recs, <<>>, idxs)

\* by_position[position]: the indices of the records of a position, in
\* list order
ByPosition(recs, position) ==
    LET sel[i \in 0..Len(recs)] ==
            IF i = 0 THEN <<>>
            ELSE IF recs[i].position = position
                 THEN Append(sel[i - 1], i) ELSE sel[i - 1]
    IN sel[Len(recs)]

\* 1-based place of x in the list s
PlaceOf(s, x) == CHOOSE i \in 1..Len(s) : s[i] = x

\* a calculator that sorts the pool itself before it ranks the positions
calculate_position_ranks_sorting_pool(players) ==
    LET order == SortByOverallRank(players, [i \in 1..Len(players) |-> i])
        pool == [i \in 1..Len(players) |-> players[order[i]]]
        by_position(position) == ByPosition(pool, position)
        position_players(position) ==
            SortByOverallRank(pool, by_position(position))
    IN [i \in 1..Len(pool) |->
           [pool[i] EXCEPT !.position_rank =
               PlaceOf(position_players(pool[i].position), i)]]

calculate_position_ranks(players) ==
    LET by_position(position) == ByPosition(players, position)
        position_players(position) ==
            SortByOverallRank(players, by_position(position))
    IN [i \in 1..Len(players) |->
           [players[i] EXCEPT !.position_rank =
               PlaceOf(position_players(players[i].position), i)]]

----------------------------------------------------------------------------
(* create_consensus_ranking *)

\* the keys of player_groups in insertion order
RECURSIVE GroupNames(_, _)
GroupNames(players, seen) ==
    IF players = <<>> THEN seen
    ELSE IF \E i \in 1..Len(seen) : seen[i] = Head(players).name
         THEN GroupNames(Tail(players), seen)
         ELSE GroupNames(Tail(players), Append(seen, Head(players).name))

\* the orders in which the interpreter may iterate over set(values): the
\* string hash seed is drawn anew for every process
IterationOrders(S) ==
    {o \in [1..Cardinality(S) -> S] : \A i, j \in 1..Cardinality(S) :
                                          i # j => o[i] # o[j]}

\* max(set(values), key=values.count): the first value of the iteration
\* order among those with the largest count
MostCommon(values, order, default) ==
    IF values = <<>> THEN default
    ELSE LET best == {i \in 1..Len(order) :
                         /\ order[i] \in Range(values)
                         /\ \A x \in Range(values) :
                                Count(values, x) <= Count(values, order[i])}
         IN order[CHOOSE i \in best : \A j \in best : i <= j]

\* mean of the truthy ranks rounded to one decimal (in tenths), else 999
Average(ranks) ==
    LET valid == SelectSeq(ranks, LAMBDA r : r # 0)
    IN IF valid = <<>> THEN 9990 ELSE RoundTenths(SeqSum(valid), Len(valid))

\* eligible only when every member is flagged
IsMultiPositionAll(players) == \A i \in 1..Len(players) : players[i].multi_position

\* any(p['multi_position'] for p in players)
IsMultiPosition(players) == \E i \in 1..Len(players) : players[i].multi_position

\* one consensus record, before the consensus ranks are assigned
ConsensusOf(name, players, team_order, position_order) ==
    LET teams == SelectSeq([i \in 1..Len(players) |-> players[i].team],
                           LAMBDA t : t # "")
        positions == SelectSeq([i \in 1..Len(players) |-> players[i].position],
                               LAMBDA t : t # "")
    IN [name |-> name,
        team |-> MostCommon(teams, team_order, "UNK"),
        position |-> MostCommon(positions, position_order, "F"),
        multi_position_eligible |-> IsMultiPosition(players),
        overall_rank |->
            Average([i \in 1..Len(players) |-> players[i].overall_rank]),
        position_rank |->
            Average([i \in 1..Len(players) |-> players[i].position_rank]),
        consensus_overall_rank |-> 0,
        consensus_position_rank |-> 0]

\* competition ranking: records of equal average share a rank
AssignOverallTied(sorted) ==
    [i \in 1..Len(sorted) |->
        [sorted[i] EXCEPT !.consensus_overall_rank =
            1 + Cardinality({j \in 1..Len(sorted) :
                                sorted[j].overall_rank < sorted[i].overall_rank})]]

\* enumerate(consensus_players, 1)
AssignOverall(sorted) ==
    [i \in 1..Len(sorted) |-> [sorted[i] EXCEPT !.consensus_overall_rank = i]]

\* the position rank taken from the place in the whole list
AssignPositionGlobal(ranked) ==
    [i \in 1..Len(ranked) |-> [ranked[i] EXCEPT !.consensus_position_rank = i]]

\* by_position buckets, each sorted again and enumerated from 1
AssignPosition(ranked) ==
    LET bucket(position) ==
            SortByOverallRank(ranked, ByPosition(ranked, position))
    IN [i \in 1..Len(ranked) |->
           [ranked[i] EXCEPT !.consensus_position_rank =
               PlaceOf(bucket(ranked[i].position), i)]]

Members(players, name) == SelectSeq(players, LAMBDA p : p.name = name)

create_consensus_ranking(players, team_order, position_order) ==
    LET names == GroupNames(players, <<>>)
        built == [g \in 1..Len(names) |->
                     ConsensusOf(names[g], Members(players, names[g]),
                                 team_order, position_order)]
        order == SortByOverallRank(built, [g \in 1..Len(names) |-> g])
        sorted == [i \in 1..Len(order) |-> built[order[i]]]
    IN AssignPosition(AssignOverall(sorted))

TeamsOf(players) == {players[i].team : i \in 1..Len(players)}
PositionsOf(players) == {players[i].position : i \in 1..Len(players)}

----------------------------------------------------------------------------
(* main *)

RECURSIVE ParseAll(_)
ParseAll(files) ==
    IF files = <<>> THEN <<>>
    ELSE parse_file(Head(files)) \o ParseAll(Tail(files))

LinesRead(files) == SeqSum([i \in 1..Len(files) |-> Len(files[i].lines)])

Init ==
    /\ pc = "parse"
    /\ run = 1
    /\ datasets = <<>>
    /\ all_players = <<>>
    /\ consensus_players = <<>>
    /\ prev = <<>>

\* one turn of the loop over os.listdir: parse the next file, extend the pool
ParseFile(f) ==
    /\ pc = "parse"
    /\ run = 1
    /\ datasets' = Append(datasets, f)
    /\ all_players' = all_players \o parse_file(f)
    /\ UNCHANGED <<pc, run, consensus_players, prev>>

\* all_players = parser.calculate_position_ranks(all_players)
CalculatePositionRanks ==
    /\ pc = "parse"
    /\ all_players' = calculate_position_ranks(all_players)
    /\ pc' = "ranked"
    /\ UNCHANGED <<run, datasets, consensus_players, prev>>

\* consensus_players = parser.create_consensus_ranking(all_players)
CreateConsensus ==
    /\ pc = "ranked"
    /\ \E team_order \in IterationOrders(TeamsOf(all_players)),
          position_order \in IterationOrders(PositionsOf(all_players)) :
          consensus_players' =
              create_consensus_ranking(all_players, team_order, position_order)
    /\ pc' = "done"
    /\ UNCHANGED <<run, datasets, all_players, prev>>

\* main() is started again on the same directory: the loop over the files,
\* which os.listdir lists in the order of the first run
Rerun ==
    /\ pc = "done"
    /\ run = 1
    /\ prev' = consensus_players
    /\ all_players' = ParseAll(datasets)
    /\ consensus_players' = <<>>
    /\ run' = 2
    /\ pc' = "parse"
    /\ UNCHANGED datasets

----------------------------------------------------------------------------
(* The directories the specifications read.  A source is a file name and   *)
(* the lines its file may hold; file names are written in lower case but   *)
(* for the position tag of a csv file.                                     *)

Malformed == <<W("not"), W("a"), W("valid"), W("ranking"), W("row")>>

\* n. name, Team (POSr)
Espn(n, name, team, position, r) ==
    <<Num(n), Dot>> \o name \o <<Comma, team, LParen, position, Num(r), RParen>>
\* n. name, POS, TEAM
Nhl(n, name, position, team) ==
    <<Num(n), Dot>> \o name \o <<Comma, position, Comma, team>>
\* n <tab> name <tab> POS <tab> TEAM
Hh(n, name, position, team) ==
    <<Num(n), Tab>> \o name \o <<Tab>> \o position \o <<Tab>> \o team
\* RK,PLAYER NAME,TEAM
Csv(n, name, team) == <<Num(n), Comma>> \o name \o <<Comma, team>>

Ann == <<W("Ann")>>
BobJr == <<W("Bob"), W("Jr.")>>
Cy == <<W("Cy")>>

Sources ==
    { [fname |-> <<"fantasypros", "_C_", ".csv">>,
       alphabet |-> {Csv(1, Ann, Up("EDM", 3))}],
      [fname |-> <<"fantasypros", "overall", ".csv">>,
       alphabet |-> {Csv(2, Cy, Up("TOR", 3))}],
      [fname |-> <<"espn", ".txt">>,
       alphabet |-> {Espn(1, Ann, W("Edm"), Up("C", 1), 2),
                     Espn(2, BobJr, W("Tor"), Up("F", 1), 1)}],
      [fname |-> <<"nhl", ".txt">>,
       alphabet |-> {Nhl(1, Ann, Up("F", 1), Up("TOR", 3)),
                     Nhl(2, Ann, Up("C", 1), Up("EDM", 3)),
                     Nhl(1, <<W("Bob"), Sp, W("Jr")>>, Up("C", 1), Up("EDM", 3))}],
      [fname |-> <<"hh", ".txt">>,
       alphabet |-> {Hh(0, Ann, <<Up("C", 1)>>, <<Up("EDM", 3)>>),
                     Hh(1, BobJr, <<Up("C", 1)>>, <<W("Tor")>>)}],
      [fname |-> <<"yahoo", ".txt">>,
       alphabet |-> {BobJr, <<Up("TOR", 3), Dash, Up("C", 1)>>}],
      [fname |-> <<"readme", ".md">>,
       alphabet |-> {Malformed}] }

\* the non-empty files of at most n lines of the sources
FilesOf(sources, n) ==
    UNION { UNION { {[fname |-> s.fname, lines |-> l] : l \in [1..m -> s.alphabet]}
                    : m \in 1..n }
            : s \in sources }

Next ==
    \/ \E f \in FilesOf(Sources, MaxLines - LinesRead(datasets)) : ParseFile(f)
    \/ CalculatePositionRanks
    \/ CreateConsensus
    \/ Rerun

Spec == Init /\ [][Next]_vars

TypeOK ==
    /\ pc \in {"parse", "ranked", "done"}
    /\ run \in {1, 2}
    /\ Len(all_players) <= LinesRead(datasets)

----------------------------------------------------------------------------
(* Properties of the pipeline *)

NamesOf(players) == {players[i].name : i \in 1..Len(players)}

\* C1: once the consensus is built, there is one consensus record per
\* distinct name of the pool and the consensus_overall_rank values are
\* exactly 1..N, none repeated, none skipped.
C1_OverallRankPermutation ==
    pc = "done" =>
        LET N == Cardinality(NamesOf(all_players))
        IN /\ Len(consensus_players) = N
           /\ NamesOf(consensus_players) = NamesOf(all_players)
           /\ {consensus_players[i].consensus_overall_rank : i \in 1..N} = 1..N

\* a consensus of several groups, one of them merged from two records, two
\* of them with the same average
C1_Witness ==
    /\ pc = "done"
    /\ Len(consensus_players) >= 2
    /\ Len(all_players) > Len(consensus_players)
    /\ \E i, j \in 1..Len(consensus_players) :
           i # j /\ consensus_players[i].overall_rank = consensus_players[j].overall_rank

\* C2: for every position p, the consensus_position_rank values of the
\* consensus records with position p are exactly 1..M, M their number.
C2_PositionRankPermutation ==
    pc = "done" =>
        \A p \in {consensus_players[i].position : i \in 1..Len(consensus_players)} :
            LET bucket == {i \in 1..Len(consensus_players) :
                              consensus_players[i].position = p}
            IN /\ {consensus_players[i].consensus_position_rank : i \in bucket}
                      = 1..Cardinality(bucket)
               /\ \A i, j \in bucket :
                      i # j => consensus_players[i].consensus_position_rank
                                   # consensus_players[j].consensus_position_rank

\* two position buckets, the second record of the list not in the first's
C2_Witness ==
    /\ pc = "done"
    /\ Len(consensus_players) >= 3
    /\ consensus_players[1].position # consensus_players[2].position
    /\ \E i, j \in 1..Len(consensus_players) :
           i # j /\ consensus_players[i].position = consensus_players[j].position

\* C3: the second run of main() on the same directory ends with the output
\* of the first run.
C3_RerunSameOutput ==
    (pc = "done" /\ run = 2) => consensus_players = prev

MinOf(S) == CHOOSE x \in S : \A y \in S : x <= y
MaxOf(S) == CHOOSE x \in S : \A y \in S : y <= x

MemberRanks(name) ==
    {all_players[i].overall_rank :
        i \in {m \in 1..Len(all_players) : all_players[m].name = name}}

\* C4: the consensus overall_rank of a group (in tenths) lies between the
\* least and the greatest overall_rank of its members.
C4_AverageBetweenMinAndMax ==
    pc = "done" =>
        \A g \in 1..Len(consensus_players) :
            LET ranks == MemberRanks(consensus_players[g].name)
            IN /\ 10 * MinOf(ranks) <= consensus_players[g].overall_rank
               /\ consensus_players[g].overall_rank <= 10 * MaxOf(ranks)

IsEspnFile(f) ==
    /\ f.fname[Len(f.fname)] # ".csv"
    /\ \E i \in 1..Len(f.fname) : f.fname[i] = "espn"

\* number of pool records that come from the files before the k-th
PoolOffset(k) == Len(ParseAll(SubSeq(datasets, 1, k - 1)))

\* C6: a record of enumerated-line source A keeps the position rank its
\* line supplied through the position-rank stage.
C6_EspnPositionRankKept ==
    pc \in {"ranked", "done"} =>
        \A k \in 1..Len(datasets) :
            IsEspnFile(datasets[k]) =>
                \A m \in 1..Len(parse_file(datasets[k])) :
                    all_players[PoolOffset(k) + m].position_rank
                        = parse_file(datasets[k])[m].position_rank

MemberIdx(name) == {m \in 1..Len(all_players) : all_players[m].name = name}
RankSum(name) == SeqSum([i \in 1..Len(all_players) |->
                            IF all_players[i].name = name
                            THEN all_players[i].overall_rank ELSE 0])
FirstSeen(name) == MinOf(MemberIdx(name))

\* C7: a group with a strictly smaller mean overall rank gets the smaller
\* consensus_overall_rank; of two groups with equal means the one met first
\* in the pool gets the smaller consensus_overall_rank.
C7_OrderedByMean ==
    pc = "done" =>
        \A a, b \in 1..Len(consensus_players) :
            LET A == consensus_players[a]
                B == consensus_players[b]
                lhs == RankSum(A.name) * Cardinality(MemberIdx(B.name))
                rhs == RankSum(B.name) * Cardinality(MemberIdx(A.name))
            IN a # b =>
                /\ lhs < rhs => A.consensus_overall_rank < B.consensus_overall_rank
                /\ (lhs = rhs /\ FirstSeen(A.name) < FirstSeen(B.name))
                       => A.consensus_overall_rank < B.consensus_overall_rank

\* C8: after the position-rank stage the records of one position carry the
\* position ranks 1..k, ascending in overall_rank, equal overall ranks in
\* the order of the pool.
C8_PositionRanks ==
    pc = "ranked" =>
        /\ \A p \in PositionsOf(all_players) :
               LET same == {i \in 1..Len(all_players) : all_players[i].position = p}
               IN {all_players[i].position_rank : i \in same} = 1..Cardinality(same)
        /\ \A i, j \in 1..Len(all_players) :
               (i < j /\ all_players[i].position = all_players[j].position) =>
                   IF all_players[i].overall_rank <= all_players[j].overall_rank
                   THEN all_players[i].position_rank < all_players[j].position_rank
                   ELSE all_players[i].position_rank > all_players[j].position_rank

\* two records of one position with equal overall ranks and a third record
\* ranked before an earlier one
C8_Witness ==
    /\ pc = "ranked"
    /\ \E i, j \in 1..Len(all_players) :
           /\ i < j
           /\ all_players[i].position = all_players[j].position
           /\ all_players[i].overall_rank = all_players[j].overall_rank
    /\ \E i, j \in 1..Len(all_players) :
           /\ i < j
           /\ all_players[i].position = all_players[j].position
           /\ all_players[i].position_rank > all_players[j].position_rank

Frame(p) == [p EXCEPT !.position_rank = 0]

\* C9: the position-rank stage returns the records of the pool in the same
\* order, none added or dropped, every field but position_rank unchanged.
C9_PureRelabeling ==
    [][(pc = "parse" /\ pc' = "ranked") =>
           /\ Len(all_players') = Len(all_players)
           /\ \A i \in 1..Len(all_players) :
                  Frame(all_players'[i]) = Frame(all_players[i])]_vars

\* the stage has rewritten a position rank, in a pool whose positions are
\* interleaved
C9_Witness ==
    /\ pc = "ranked"
    /\ run = 1
    /\ \E i \in 1..Len(all_players) :
           all_players[i].position_rank # ParseAll(datasets)[i].position_rank
    /\ \E i, j, k \in 1..Len(all_players) :
           /\ i < j /\ j < k
           /\ all_players[i].position = all_players[k].position
           /\ all_players[i].position # all_players[j].position

----------------------------------------------------------------------------
(* The parsers on one file *)

Blank == <<Sp>>

ParserSources ==
    { [fname |-> <<"espn", ".txt">>,
       alphabet |-> {Malformed, Blank,
                     Espn(3, <<W("Connor"), W("McDavid")>>, W("Edm"), Up("C", 1), 2),
                     Espn(1, BobJr, Up("TBL", 3), Up("LW", 2), 1)}],
      [fname |-> <<"nhl", ".txt">>,
       alphabet |-> {Malformed, Blank,
                     Nhl(1, Ann, Up("F", 1), Up("COL", 3)),
                     Nhl(2, <<W("Bob"), Sp, W("Jr")>>, Up("D", 1), W("Tor"))}],
      [fname |-> <<"hh", ".txt">>,
       alphabet |-> {Malformed,
                     Hh(0, Ann, <<Up("C", 1)>>, <<Up("EDM", 3)>>),
                     Hh(2, BobJr, <<>>, <<Up("SJS", 3)>>),
                     <<Num(3), Tab>> \o Cy \o <<Tab, Up("G", 1)>>}],
      [fname |-> <<"yahoo", ".txt">>,
       alphabet |-> {Malformed, Ann,
                     <<Up("EDM", 3), Dash, Up("C", 1)>>,
                     <<Num(12)>>}],
      [fname |-> <<"fantasypros", "_D_", ".csv">>,
       alphabet |-> {Csv(1, Ann, Up("EDM", 3)), Csv(2, BobJr, Up("LAS", 3))}],
      [fname |-> <<"readme", ".md">>,
       alphabet |-> {Malformed}] }

NextParse ==
    /\ datasets = <<>>
    /\ \E f \in FilesOf(ParserSources, MaxFileLines) : ParseFile(f)

SpecParse == Init /\ [][NextParse]_vars

IsTextSource(f) ==
    /\ f.fname[Len(f.fname)] # ".csv"
    /\ \E i \in 1..Len(f.fname) : f.fname[i] \in {"espn", "yahoo", "nhl", "hh"}

Without(l, i) == SubSeq(l, 1, i - 1) \o SubSeq(l, i + 1, Len(l))

\* C5: in every text source a malformed line yields no record and leaves
\* the records of the other lines as they are without it.
C5_MalformedLineDropped ==
    \A k \in 1..Len(datasets) :
        LET f == datasets[k]
        IN IsTextSource(f) =>
               \A i \in 1..Len(f.lines) :
                   f.lines[i] = Malformed =>
                       parse_file(f) = parse_file([f EXCEPT !.lines = Without(f.lines, i)])

----------------------------------------------------------------------------
(* The aggregator on the records of one or two players *)

GroupSources ==
    { [fname |-> <<"yahoo", ".txt">>,
       alphabet |-> {Ann, <<Up("EDM", 3), Dash, Up("F", 1)>>,
                     <<Up("EDM", 3), Dash, Up("C", 1)>>}],
      [fname |-> <<"espn", ".txt">>,
       alphabet |-> {Espn(1, Ann, W("Edm"), Up("C", 1), 1)}],
      [fname |-> <<"nhl", ".txt">>,
       alphabet |-> {Nhl(2, Ann, Up("C", 1), Up("EDM", 3)),
                     Nhl(1, Ann, Up("F", 1), Up("TOR", 3))}],
      [fname |-> <<"hh", ".txt">>,
       alphabet |-> {Hh(2, BobJr, <<Up("F", 1)>>, <<Up("TOR", 3)>>)}] }

NextGroup ==
    \/ \E f \in FilesOf(GroupSources, MaxGroupLines - LinesRead(datasets)) :
           ParseFile(f)
    \/ CalculatePositionRanks
    \/ CreateConsensus

SpecGroup == Init /\ [][NextGroup]_vars

GroupOf(name) == Members(all_players, name)
GroupPositions(name) ==
    [i \in 1..Len(GroupOf(name)) |-> GroupOf(name)[i].position]
IsFCC(name) ==
    /\ Len(GroupPositions(name)) = 3
    /\ Count(GroupPositions(name), "F") = 1
    /\ Count(GroupPositions(name), "C") = 2

====
